---------------------------- MODULE Spec2Model ----------------------------
(***************************************************************************)
(* Model of the node refresh operator (src/node_refresh_controller.py):    *)
(* the watch loop, the reconcile state machine, the eviction engine, the   *)
(* cron check, the cluster health gate and the status writer.              *)
(***************************************************************************)
EXTENDS Integers, Sequences, FiniteSets, TLC

\* ------------------------------------------------------------------------
\* Python float arithmetic (IEEE-754 binary64, round to nearest even).
\* _check_cluster_health computes (running / total) * 100 in floats and
\* compares it with the threshold.  A mantissa is a natural number held in
\* Limbs limbs of LimbBits bits, least significant limb first; a float is
\* [m |-> mantissa, e |-> exponent] and stands for m * 2^e.
\* ------------------------------------------------------------------------
MantBits == 53
LimbBits == 15
Limbs == 5
Base == 2 ^ LimbBits

\* v * 2^sh as limbs, for a natural v < 2^16
BigShift(v, sh) ==
    LET q == sh \div LimbBits
        w == v * 2 ^ (sh % LimbBits)
    IN  [i \in 1..Limbs |-> IF i = q + 1 THEN w % Base
                            ELSE IF i = q + 2 THEN w \div Base
                            ELSE 0]

RECURSIVE BigDivStep(_, _, _, _)
\* limbs 1..i of the quotient of (r * Base^i + x[1..i]) by d, and the remainder
BigDivStep(x, d, i, r) ==
    IF i = 0 THEN [q |-> <<>>, r |-> r]
    ELSE LET cur == r * Base + x[i]
             low == BigDivStep(x, d, i - 1, cur % d)
         IN  [q |-> Append(low.q, cur \div d), r |-> low.r]

BigDivSmall(x, d) == BigDivStep(x, d, Limbs, 0)

RECURSIVE BigMulStep(_, _, _, _)
\* limbs i..Limbs of x * c + carry * Base^(i-1)
BigMulStep(x, c, i, carry) ==
    IF i > Limbs THEN <<>>
    ELSE LET cur == x[i] * c + carry
         IN  <<cur % Base>> \o BigMulStep(x, c, i + 1, cur \div Base)

BigMulSmall(x, c) == BigMulStep(x, c, 1, 0)

BigInc(x) == BigMulStep(x, 1, 1, 1)

BigGE(x, y) ==
    LET diff == {i \in 1..Limbs : x[i] # y[i]}
        top  == CHOOSE i \in diff : \A j \in diff : j <= i
    IN  diff = {} \/ x[top] > y[top]

\* the number of binary digits of x > 0
BigBitLen(x) ==
    LET top == CHOOSE i \in 1..Limbs : x[i] # 0 /\ \A j \in (i + 1)..Limbs : x[j] = 0
        len == CHOOSE b \in 1..LimbBits : 2 ^ (b - 1) <= x[top] /\ x[top] < 2 ^ b
    IN  (top - 1) * LimbBits + len

\* round to nearest even: q holds MantBits + 1 digits, the last one being the
\* guard digit of weight 2^(exp - 1); sticky tells of non-zero digits beyond it
RoundFloat(q, exp, sticky) ==
    LET half == BigDivSmall(q, 2)
        m    == half.q
        up   == half.r = 1 /\ (sticky \/ m[1] % 2 = 1)
        inc  == BigInc(m)
    IN  IF ~up THEN [m |-> m, e |-> exp]
        ELSE IF BigBitLen(inc) = MantBits THEN [m |-> inc, e |-> exp]
        ELSE [m |-> BigDivSmall(inc, 2).q, e |-> exp + 1]

\* float(k) / float(n) for 1 <= k <= n
FloatDiv(k, n) ==
    LET lead == CHOOSE e \in 0..15 :
                   /\ k * 2 ^ e >= n
                   /\ e = 0 \/ k * 2 ^ (e - 1) < n
        sh   == lead + MantBits - 1
        quot == BigDivSmall(BigShift(k, sh + 1), n)
    IN  RoundFloat(quot.q, -sh, quot.r # 0)

\* x * 100 for a float x >= 2^-15
FloatMul100(x) ==
    LET prod == BigMulSmall(x.m, 100)
        sh   == BigBitLen(prod) - MantBits
        quot == BigDivSmall(prod, 2 ^ (sh - 1))
    IN  RoundFloat(quot.q, x.e + sh, quot.r # 0)

\* x >= t for a float x with a negative exponent and a natural t < 128
FloatGE(x, t) == BigGE(x.m, BigShift(t, -x.e))

\* (running / total) * 100 >= threshold, as Python evaluates it
HealthPctGE(running, total, threshold) ==
    IF running = 0 THEN 0 >= threshold
    ELSE FloatGE(FloatMul100(FloatDiv(running, total)), threshold)

\* ------------------------------------------------------------------------
\* Bounds of the model
\* ------------------------------------------------------------------------
MaxQueue == 2      \* watch events waiting to be reconciled
MaxTime == 1       \* last instant of the clock
MaxSteps == 12     \* reconciles of one run
MaxChurn == 1      \* changes of the node labels in one run

\* ------------------------------------------------------------------------
\* The cluster: nodes, pods, PodDisruptionBudgets, cron
\* ------------------------------------------------------------------------
None == "none"     \* a string field that is not set
Absent == -1       \* a numeric field that is not set

AllNodes == {"n1", "n2", "n3"}          \* the nodes of the cluster, all Ready

Pods == {"p1", "p2", "p3", "p4", "p5", "p6", "a1", "a2", "a3", "b1", "b2", "b3"}

\* the pods of a mixed cluster, and of one with 3 evictable pods per fleet node
MixedPods == {"p1", "p2", "p3", "p4", "p5", "p6"}
PlainPods == {"a1", "a2", "a3", "b1", "b2", "b3"}

PodInfo ==
    [p \in Pods |->
        CASE p = "p1" -> [node |-> "n1", ns |-> "default",
                          owners |-> <<"ReplicaSet">>, labels |-> {"app=a"}]
          [] p = "p2" -> [node |-> "n1", ns |-> "default",
                          owners |-> <<>>, labels |-> {}]
          [] p = "p3" -> [node |-> "n1", ns |-> "kube-system",
                          owners |-> <<"ReplicaSet">>, labels |-> {}]
          [] p = "p4" -> [node |-> "n2", ns |-> "default",
                          owners |-> <<"ReplicaSet", "DaemonSet">>, labels |-> {}]
          [] p = "p5" -> [node |-> "n2", ns |-> "default",
                          owners |-> <<"Job">>, labels |-> {}]
          [] p = "p6" -> [node |-> "n3", ns |-> "default",
                          owners |-> <<"StatefulSet">>, labels |-> {"app=a"}]
          [] p \in {"a1", "a2"} ->
                         [node |-> "n1", ns |-> "default",
                          owners |-> <<"ReplicaSet">>, labels |-> {}]
          [] p = "a3" -> [node |-> "n1", ns |-> "default",
                          owners |-> <<>>, labels |-> {}]
          [] p \in {"b1", "b2"} ->
                         [node |-> "n2", ns |-> "default",
                          owners |-> <<"StatefulSet">>, labels |-> {}]
          [] OTHER    -> [node |-> "n2", ns |-> "default",
                          owners |-> <<>>, labels |-> {}]]

\* listings of the PodDisruptionBudgets of namespace "default", in list order
PdbAllow == [sel |-> {"app=a"}, allowed |-> 1]
PdbBlock == [sel |-> {"app=a"}, allowed |-> 0]
PdbListings == {<<>>, <<PdbBlock>>, <<PdbAllow, PdbBlock>>}

\* <<running pods, all pods>> of the whole cluster
HealthSamples == {<<10, 50>>, <<29, 50>>, <<50, 50>>}

Thresholds == {0, 58}

\* the runs of the model: the spec of the NodeRefresh object, the nodes that
\* carry its target labels, whether API calls, evictions and owning
\* controllers may fail during the run, the pods of the cluster, and how
\* often the labels of the nodes change during the run
Scenarios ==
    {[cfg |-> [schedule |-> None, minHealthThreshold |-> 58, maxPodsToMoveAtOnce |-> 1],
      fleet |-> {"n1", "n2"}, chaos |-> TRUE, pods |-> MixedPods, churn |-> 0],
     [cfg |-> [schedule |-> None, minHealthThreshold |-> 0, maxPodsToMoveAtOnce |-> 2],
      fleet |-> {"n1", "n2"}, chaos |-> FALSE, pods |-> MixedPods, churn |-> 0],
     [cfg |-> [schedule |-> None, minHealthThreshold |-> 58, maxPodsToMoveAtOnce |-> 1],
      fleet |-> {}, chaos |-> TRUE, pods |-> MixedPods, churn |-> 0],
     [cfg |-> [schedule |-> "valid", minHealthThreshold |-> 58, maxPodsToMoveAtOnce |-> 2],
      fleet |-> {"n1", "n2"}, chaos |-> FALSE, pods |-> MixedPods, churn |-> 0],
     [cfg |-> [schedule |-> "valid", minHealthThreshold |-> 58, maxPodsToMoveAtOnce |-> 1],
      fleet |-> {}, chaos |-> TRUE, pods |-> MixedPods, churn |-> 0],
     [cfg |-> [schedule |-> "malformed", minHealthThreshold |-> 58, maxPodsToMoveAtOnce |-> 1],
      fleet |-> {"n1", "n2"}, chaos |-> TRUE, pods |-> MixedPods, churn |-> 0],
     [cfg |-> [schedule |-> None, minHealthThreshold |-> 0, maxPodsToMoveAtOnce |-> 2],
      fleet |-> {"n1", "n2"}, chaos |-> FALSE, pods |-> PlainPods, churn |-> 0],
     [cfg |-> [schedule |-> None, minHealthThreshold |-> 58, maxPodsToMoveAtOnce |-> 2],
      fleet |-> {"n1", "n2"}, chaos |-> FALSE, pods |-> MixedPods, churn |-> MaxChurn]}

\* croniter(schedule, t).get_next(): the first tick strictly after t.  The
\* clock of the model counts the periods of the valid refreshSchedule, which
\* fires at every instant of it.
get_next(t) == t + 1

\* all orders in which a listing may return the members of S
Orders(S) ==
    {s \in [1..Cardinality(S) -> S] : \A i, j \in 1..Cardinality(S) : s[i] = s[j] => i = j}

\* ------------------------------------------------------------------------
\* State
\* ------------------------------------------------------------------------
VARIABLES
    cfg,          \* spec of the NodeRefresh object
    status,       \* its persisted status subresource
    queue,        \* watch events not yet reconciled: the status each one embeds
    now,          \* the clock (datetime.utcnow) when it was last read
    fleet,        \* nodes that carry all targetNodeLabels
    podsOn,       \* pods scheduled on their node
    chaos,        \* whether API calls, evictions and owners may fail in this run
    hist,         \* what the last reconcile did and what the cluster answered
    steps,        \* reconciles made so far
    churn         \* changes of the node labels still to come

vars == <<cfg, status, queue, now, fleet, podsOn, chaos, hist, steps, churn>>

retry_delays == <<30, 60, 120, 300>>

MaxConditions == 10      \* conditions kept by _update_status

EmptyStatus ==
    [phase |-> None, currentNode |-> None, totalNodes |-> Absent,
     nodesRefreshed |-> <<>>, podsMovedSuccessfully |-> Absent,
     podsMovesFailed |-> Absent, retryCount |-> Absent,
     lastRefreshTime |-> Absent, nextRefreshTime |-> Absent, message |-> None,
     conditions |-> <<>>]

\* dict.get(key, default)
GetStr(v, default) == IF v = None THEN default ELSE v
GetNum(v, default) == IF v = Absent THEN default ELSE v

\* ------------------------------------------------------------------------
\* _update_status: read the persisted status, merge the update, patch.  A
\* patch that sets phase appends a condition with a fresh timestamp, so it
\* always changes the object; any other patch changes it only when a field
\* changes.  A changed object is delivered by the watch as a MODIFIED event
\* embedding the status just written.  w is the world a reconcile threads
\* through its calls: st the persisted status, q the watch queue, t the
\* clock, pods the scheduled pods, req the eviction requests submitted, wr
\* the phases written, slept the retry delay slept, exc an exception raised,
\* success_count and failed_count the counters of _handle_draining,
\* attempted the calls of _evict_pod.
\* env is what the cluster answers during the reconcile.
\* ------------------------------------------------------------------------
\* a faulty truncation, conditions[:10], that keeps the oldest entries: the
\* variant against which the sensitivity of C17 is tested
KeepFirst(conditions) ==
    IF Len(conditions) <= MaxConditions THEN conditions
    ELSE SubSeq(conditions, 1, MaxConditions)

\* conditions[-10:]
KeepLast(conditions) ==
    IF Len(conditions) <= MaxConditions THEN conditions
    ELSE SubSeq(conditions, Len(conditions) - MaxConditions + 1, Len(conditions))

\* the condition appended by a status update that sets phase
Condition(status_update, t) ==
    [type |-> status_update.phase, lastTransitionTime |-> t,
     message |-> IF "message" \in DOMAIN status_update
                 THEN status_update.message ELSE ""]

update_status(w, status_update, env) ==
    IF env.fault = "status" THEN w
    ELSE LET setsPhase == "phase" \in DOMAIN status_update
             current_status ==
                 [f \in DOMAIN w.st |->
                     IF f \in DOMAIN status_update THEN status_update[f]
                     ELSE IF f = "conditions" /\ setsPhase
                     THEN KeepLast(Append(w.st.conditions,
                                          Condition(status_update, w.t)))
                     ELSE w.st[f]]
         IN  [w EXCEPT !.st = current_status,
                       !.q  = IF setsPhase \/ current_status # w.st
                              THEN Append(w.q, current_status) ELSE w.q,
                       !.wr = IF setsPhase
                              THEN Append(w.wr, status_update.phase) ELSE w.wr]

\* ------------------------------------------------------------------------
\* _is_refresh_due: [w |-> world, due |-> verdict].  The clock is read when
\* croniter is built and again after the status write, env.d later.
\* ------------------------------------------------------------------------
\* a faulty due check that writes nextRefreshTime and answers True without
\* comparing the clock with the tick: the variant against which the
\* sensitivity of C21 is tested
refresh_always_due(w, obj, env) ==
    [w |-> [update_status(w, [nextRefreshTime |-> get_next(w.t)], env)
               EXCEPT !.t = w.t + env.d],
     due |-> TRUE]

\* _is_refresh_due
is_refresh_due(w, obj, env) ==
    LET last_refresh == obj.lastRefreshTime
        next_run == get_next(w.t)
        w1 == update_status(w, [nextRefreshTime |-> next_run], env)
        w2 == [w1 EXCEPT !.t = w.t + env.d]
    IN  [w |-> w2,
         due |-> IF last_refresh = Absent THEN TRUE ELSE w2.t >= next_run]

\* _get_target_nodes: the listing, or [] when the API call fails
get_target_nodes(env) == IF env.fault = "listTarget" THEN <<>> ELSE env.nodes

\* ------------------------------------------------------------------------
\* _start_refresh
\* ------------------------------------------------------------------------
start_refresh(w, obj, env) ==
    LET target_nodes == get_target_nodes(env)
    IN  IF target_nodes = <<>>
        THEN update_status(w, [phase |-> "Completed",
                               message |-> "No target nodes found",
                               totalNodes |-> 0], env)
        ELSE update_status(w, [phase |-> "Provisioning",
                               currentNode |-> target_nodes[1],
                               totalNodes |-> Len(target_nodes),
                               nodesRefreshed |-> <<>>,
                               podsMovedSuccessfully |-> 0,
                               podsMovesFailed |-> 0,
                               message |-> "Provisioning new node"], env)

\* ------------------------------------------------------------------------
\* Health evaluator
\* ------------------------------------------------------------------------
\* the verdict of _check_cluster_health on pod counts <<running, total>>
HealthVerdict(pods, threshold) ==
    IF pods[2] = 0 THEN TRUE ELSE HealthPctGE(pods[1], pods[2], threshold)

\* the verdicts for the pod counts and thresholds of the model
HealthTable == [s \in HealthSamples, t \in Thresholds |-> HealthVerdict(s, t)]

\* _check_cluster_health: False when listing the pods fails
check_cluster_health(threshold, env) ==
    IF env.fault = "health" THEN FALSE ELSE HealthTable[env.health, threshold]

\* _is_node_ready over list_node(): the number of Ready nodes
ready_nodes(env) == Cardinality(env.ready)

\* ------------------------------------------------------------------------
\* _handle_provisioning: list_node() is called outside any try block, so its
\* failure is raised to reconcile
\* ------------------------------------------------------------------------
handle_provisioning(w, obj, env) ==
    IF env.fault = "listAll" THEN [w EXCEPT !.exc = TRUE]
    ELSE LET target_nodes == get_target_nodes(env)
         IN  IF ready_nodes(env) > Len(target_nodes)
             THEN update_status(w, [phase |-> "Draining",
                                    message |-> "Draining node"], env)
             ELSE w

\* ------------------------------------------------------------------------
\* Eviction engine
\* ------------------------------------------------------------------------
is_daemonset_pod(p) ==
    \E i \in 1..Len(PodInfo[p].owners) : PodInfo[p].owners[i] = "DaemonSet"

\* the filter of _get_pods_on_node
KeepPod(p) ==
    /\ ~is_daemonset_pod(p)
    /\ PodInfo[p].ns \notin {"kube-system", "kube-public"}

\* list_pod_for_all_namespaces(field_selector = spec.nodeName = node_name)
PodsOfNode(on, node_name) == {p \in on : PodInfo[p].node = node_name}

\* _get_pods_on_node: env.podList is the listing for the node
get_pods_on_node(env) ==
    IF env.fault = "podsOnNode" THEN <<>> ELSE SelectSeq(env.podList, KeepPod)

selector_matches_pod(selector, p) ==
    /\ selector # {}
    /\ \A kv \in selector : kv \in PodInfo[p].labels

\* _check_pdb_allows_eviction: the first matching budget of the listing decides
check_pdb_allows_eviction(p, listing, env) ==
    IF env.fault = "pdb" THEN TRUE
    ELSE LET budgets  == IF PodInfo[p].ns = "default" THEN listing ELSE <<>>
             matching == {i \in 1..Len(budgets) :
                             selector_matches_pod(budgets[i].sel, p)}
             first    == CHOOSE i \in matching : \A j \in matching : i <= j
         IN  IF matching = {} THEN TRUE ELSE budgets[first].allowed > 0

\* create_namespaced_pod_eviction: the API server accepts the eviction unless
\* the call fails or a budget selecting the pod allows no disruption (429)
ServerEvicts(p, listing, env) ==
    /\ p \notin env.evictErr
    /\ \A i \in 1..Len(listing) :
          (PodInfo[p].ns = "default" /\ listing[i].sel \subseteq PodInfo[p].labels)
              => listing[i].allowed > 0

\* _evict_pod: [w |-> world, ok |-> its result]
evict_pod(w, p, env) ==
    LET first   == check_pdb_allows_eviction(p, env.pdbs, env)
        listing == IF first THEN env.pdbs ELSE env.pdbs2
        wReq    == [w EXCEPT !.req = w.req \cup {p}]
    IN  IF ~first /\ ~check_pdb_allows_eviction(p, env.pdbs2, env)
        THEN [w |-> w, ok |-> FALSE]
        ELSE IF ServerEvicts(p, listing, env)
        THEN [w |-> [wReq EXCEPT !.pods = w.pods \ {p}], ok |-> TRUE]
        ELSE [w |-> wReq, ok |-> FALSE]

\* _get_pod_owner
get_pod_owner(p) ==
    IF PodInfo[p].owners = <<>> THEN None ELSE PodInfo[p].owners[1]

\* what the polling loop of _verify_pods_healthy does for one pod: "next"
\* (go on to the next pod), "false" (timeout) or "raise" (ready_replicas is
\* None when no replica is ready, and None >= int raises TypeError)
VerifyPod(p, env) ==
    LET owner == get_pod_owner(p)
    IN  IF owner = None THEN "next"
        ELSE IF owner \in {"ReplicaSet", "StatefulSet"}
        THEN CASE env.owners = "ready"   -> "next"
               [] env.owners = "timeout" -> "false"
               [] OTHER                  -> "raise"
        ELSE "false"

\* _verify_pods_healthy: "true", "false" or "raise"
verify_pods_healthy(batch, env) ==
    LET stops == {i \in 1..Len(batch) : VerifyPod(batch[i], env) # "next"}
        first == CHOOSE i \in stops : \A j \in stops : i <= j
    IN  IF stops = {} THEN "true" ELSE VerifyPod(batch[first], env)

\* success_count += 1 or failed_count += 1 on the result r of _evict_pod
Tally(r) ==
    IF r.ok THEN [r.w EXCEPT !.success_count = @ + 1]
    ELSE [r.w EXCEPT !.failed_count = @ + 1]

RECURSIVE EvictBatch(_, _, _, _)
\* the inner loop of _handle_draining over batch[i..]
EvictBatch(w, batch, i, env) ==
    IF i > Len(batch) THEN w
    ELSE EvictBatch(Tally(evict_pod([w EXCEPT !.attempted = @ + 1], batch[i], env)),
                    batch, i + 1, env)

\* pods[i:i + max_concurrent]
Batch(pods, i, max_concurrent) ==
    SubSeq(pods, i, IF i + max_concurrent - 1 < Len(pods)
                    THEN i + max_concurrent - 1 ELSE Len(pods))

\* the end of a batch: healthy is the result of _verify_pods_healthy
AfterBatch(w, batch, healthy) ==
    CASE healthy = "raise" -> [w EXCEPT !.exc = TRUE]
      [] healthy = "false" -> [w EXCEPT !.failed_count = @ + Len(batch)]
      [] OTHER             -> w

RECURSIVE DrainBatches(_, _, _, _, _)
\* the outer loop of _handle_draining from index i on; an exception ends it
DrainBatches(w, pods, i, max_concurrent, env) ==
    IF i > Len(pods) \/ w.exc THEN w
    ELSE DrainBatches(
             AfterBatch(EvictBatch(w, Batch(pods, i, max_concurrent), 1, env),
                        Batch(pods, i, max_concurrent),
                        verify_pods_healthy(Batch(pods, i, max_concurrent), env)),
             pods, i + max_concurrent, max_concurrent, env)

\* the status update that ends _handle_draining
EndDraining(w, obj, env) ==
    IF w.exc THEN w
    ELSE update_status(w, [phase |-> "Validating",
                           podsMovedSuccessfully |->
                               GetNum(obj.podsMovedSuccessfully, 0) + w.success_count,
                           podsMovesFailed |->
                               GetNum(obj.podsMovesFailed, 0) + w.failed_count,
                           message |-> "Validating pod health"], env)

\* _handle_draining
handle_draining(w, obj, env) ==
    IF ~check_cluster_health(cfg.minHealthThreshold, env)
    THEN update_status(w, [message |-> "Paused: Cluster health below threshold"], env)
    ELSE EndDraining(DrainBatches(w, get_pods_on_node(env), 1,
                                  cfg.maxPodsToMoveAtOnce, env),
                     obj, env)

\* ------------------------------------------------------------------------
\* _finalize_refresh
\* ------------------------------------------------------------------------
finalize_refresh(w, nodes_refreshed, env) ==
    LET w1 == update_status(w, [phase |-> "Completed",
                                nodesRefreshed |-> nodes_refreshed,
                                lastRefreshTime |-> w.t,
                                message |-> "Successfully refreshed"], env)
    IN  IF cfg.schedule # None
        THEN update_status(w1, [phase |-> "Idle"], env)
        ELSE w1

\* ------------------------------------------------------------------------
\* _handle_validation
\* ------------------------------------------------------------------------
handle_validation(w, obj, env) ==
    LET current_node == obj.currentNode
        nodes_refreshed == Append(obj.nodesRefreshed, current_node)
        total_nodes == GetNum(obj.totalNodes, 0)
        target_nodes == get_target_nodes(env)
        InRefreshed(n) == \E i \in 1..Len(nodes_refreshed) : nodes_refreshed[i] = n
        NotRefreshed(n) == ~InRefreshed(n)
        remaining_nodes == SelectSeq(target_nodes, NotRefreshed)
    IN  IF check_cluster_health(cfg.minHealthThreshold, env)
        THEN IF Len(nodes_refreshed) < total_nodes /\ remaining_nodes # <<>>
             THEN update_status(w, [phase |-> "Provisioning",
                                    currentNode |-> remaining_nodes[1],
                                    nodesRefreshed |-> nodes_refreshed,
                                    message |-> "Provisioning for next node"], env)
             ELSE finalize_refresh(w, nodes_refreshed, env)
        ELSE update_status(w, [phase |-> "Failed",
                               message |-> "Validation failed: Cluster health below threshold"],
                           env)

\* ------------------------------------------------------------------------
\* _handle_completion
\* ------------------------------------------------------------------------
handle_completion(w, obj, env) ==
    IF cfg.schedule # None THEN update_status(w, [phase |-> "Idle"], env) ELSE w

\* ------------------------------------------------------------------------
\* _handle_failure: time.sleep(retry_delays[retry_count]) precedes the write
\* ------------------------------------------------------------------------
handle_failure(w, obj, env) ==
    LET retry_count == GetNum(obj.retryCount, 0)
    IN  IF retry_count < Len(retry_delays)
        THEN update_status([w EXCEPT !.slept = retry_delays[retry_count + 1]],
                           [phase |-> "Idle",
                            retryCount |-> retry_count + 1,
                            message |-> "Retrying"], env)
        ELSE update_status(w, [message |-> "Failed: Max retries exceeded"], env)

\* ------------------------------------------------------------------------
\* reconcile: obj is the object embedded in the watch event
\* ------------------------------------------------------------------------
Dispatch(w, obj, env) ==
    LET current_phase == GetStr(obj.phase, "Idle")
    IN  CASE current_phase = "Idle"         -> start_refresh(w, obj, env)
          [] current_phase = "Provisioning" -> handle_provisioning(w, obj, env)
          [] current_phase = "Draining"     -> handle_draining(w, obj, env)
          [] current_phase = "Validating"   -> handle_validation(w, obj, env)
          [] current_phase = "Completed"    -> handle_completion(w, obj, env)
          [] OTHER                          -> handle_failure(w, obj, env)

\* the except clause of reconcile
OnException(w, env) ==
    update_status([w EXCEPT !.exc = TRUE],
                  [phase |-> "Failed", message |-> "Reconciliation error"], env)

\* the try block of reconcile around the handler that left the world h
Try(h, env) == IF h.exc THEN OnException(h, env) ELSE h

reconcile(w, obj, env) ==
    IF cfg.schedule = None
    THEN Try(Dispatch(w, obj, env), env)
    ELSE IF cfg.schedule = "malformed"
    THEN OnException(w, env)          \* croniter raises on a bad expression
    ELSE LET r == is_refresh_due(w, obj, env)
         IN  IF ~r.due THEN r.w
             ELSE Try(Dispatch(r.w, obj, env), env)

\* ------------------------------------------------------------------------
\* What the cluster may answer during one reconcile of obj.  Only the
\* answers the handler of obj's phase asks for vary.
\* ------------------------------------------------------------------------
AnyOrder(S) == CHOOSE o \in Orders(S) : TRUE

FaultsOf(phase) ==
    IF ~chaos THEN {} ELSE
    CASE phase = "Idle"         -> {"listTarget", "status"}
      [] phase = "Provisioning" -> {"listAll", "listTarget", "status"}
      [] phase = "Draining"     -> {"health", "podsOnNode", "pdb", "status"}
      [] phase = "Validating"   -> {"health", "listTarget", "status"}
      [] OTHER                  -> {"status"}

\* listings of the pods of a node: the pods the filter drops come first
PodListings(node_name) ==
    LET here == PodsOfNode(podsOn, node_name)
        kept == {p \in here : KeepPod(p)}
    IN  {AnyOrder(here \ kept) \o o : o \in Orders(kept)}

\* budget listings at the first check and at the re-check 30 s later
PdbAnswers(kept) ==
    IF \E p \in kept : PodInfo[p].labels # {}
    THEN {x \in PdbListings \X PdbListings :
             x[2] = x[1] \/ (x[2] = <<>> /\ x[1] = <<PdbBlock>>)}
    ELSE {<<(<<>>), (<<>>)>>}

OwnerAnswers(kept) ==
    IF \E p \in kept : get_pod_owner(p) \in {"ReplicaSet", "StatefulSet"}
       /\ chaos
    THEN {"ready", "timeout", "absent"} ELSE {"ready"}

Envs(obj) ==
    LET phase  == GetStr(obj.phase, "Idle")
        plain  == [fault |-> "none", nodes |-> AnyOrder(fleet), d0 |-> 0, d |-> 0,
                   ready |-> AllNodes, health |-> <<50, 50>>,
                   pdbs |-> <<>>, pdbs2 |-> <<>>,
                   podList |-> <<>>, evictErr |-> {}, owners |-> "ready"]
        timed  == IF cfg.schedule = "valid"
                  THEN {[plain EXCEPT !.d0 = a, !.d = b] : a \in {0, 1}, b \in {0, 1}}
                  ELSE {plain}
        kept   == {p \in PodsOfNode(podsOn, obj.currentNode) : KeepPod(p)}
        lists  == PodListings(obj.currentNode)
        faulty(e) ==
            {[e EXCEPT !.fault = f, !.podList = l] :
                f \in FaultsOf(phase),
                l \in IF phase = "Draining" THEN lists ELSE {<<>>}}
        answer(e) ==
            CASE phase = "Idle" ->
                    {[e EXCEPT !.nodes = o] : o \in Orders(fleet)}
              [] phase = "Provisioning" ->
                    {[e EXCEPT !.ready = r] : r \in {AllNodes, AllNodes \ {"n3"}}}
              [] phase = "Draining" ->
                    {[e EXCEPT !.health = h] :
                        h \in {x \in HealthSamples :
                                  ~HealthTable[x, cfg.minHealthThreshold]}}
                    \cup
                    {[e EXCEPT !.health = h, !.pdbs = pp[1], !.pdbs2 = pp[2],
                               !.podList = l, !.evictErr = ee, !.owners = ow] :
                        h \in {x \in HealthSamples :
                                  HealthTable[x, cfg.minHealthThreshold]},
                        pp \in PdbAnswers(kept), l \in lists,
                        ee \in IF chaos THEN SUBSET kept ELSE {{}},
                        ow \in OwnerAnswers(kept)}
              [] phase = "Validating" ->
                    {[e EXCEPT !.health = h, !.nodes = o] :
                        h \in HealthSamples, o \in Orders(fleet)}
              [] OTHER -> {e}
    IN  UNION {faulty(e) \cup answer(e) : e \in timed}

\* ------------------------------------------------------------------------
\* Actions
\* ------------------------------------------------------------------------
Init ==
    /\ \E s \in Scenarios :
          /\ cfg = s.cfg /\ fleet = s.fleet /\ chaos = s.chaos
          /\ podsOn = s.pods /\ churn = s.churn
    /\ steps = 0
    /\ status = EmptyStatus
    /\ queue = <<EmptyStatus>>          \* the ADDED event of the new object
    /\ now = 0
    /\ hist = [flip |-> 0, fault |-> "none", requested |-> {}, written |-> <<>>,
               slept |-> 0, health |-> <<50, 50>>, pdbs |-> <<(<<>>), (<<>>)>>,
               attempted |-> 0, captured |-> {}]

\* what a reconcile starts from: the persisted status, the events still to
\* be delivered, the clock at its first reading, the pods of the cluster
World(env) ==
    [st |-> status, q |-> Tail(queue), t |-> now + env.d0, pods |-> podsOn,
     req |-> {}, wr |-> <<>>, exc |-> FALSE, slept |-> 0,
     success_count |-> 0, failed_count |-> 0, attempted |-> 0]

\* the reconcile of obj that left the world w moved Idle to Provisioning
StartsCycle(obj, w) ==
    /\ GetStr(obj.phase, "Idle") = "Idle"
    /\ w.wr # <<>>
    /\ w.wr[Len(w.wr)] = "Provisioning"

\* run: take the next ADDED/MODIFIED event and reconcile the object it embeds
Deliver ==
    /\ queue # <<>>
    /\ \E env \in Envs(queue[1]) :
          \E w \in {reconcile(World(env), queue[1], env)} :
              /\ Len(w.q) <= MaxQueue
              /\ w.t <= MaxTime
              /\ status' = w.st
              /\ queue' = w.q
              /\ now' = w.t
              /\ podsOn' = w.pods
              /\ hist' = [flip |-> 1 - hist.flip, fault |-> env.fault,
                          requested |-> w.req, written |-> w.wr,
                          slept |-> w.slept, health |-> env.health,
                          pdbs |-> <<env.pdbs, env.pdbs2>>,
                          attempted |-> w.attempted,
                          captured |-> IF StartsCycle(queue[1], w)
                                       THEN fleet ELSE hist.captured]
    /\ UNCHANGED <<cfg, fleet, chaos, churn>>

\* a reconcile, counted against the bound on the reconciles of a behaviour
Reconcile ==
    /\ steps < MaxSteps
    /\ steps' = steps + 1
    /\ Deliver

\* the watch delivers the object again to the idle operator: the stream is
\* re-opened every 300 s and lists it anew, or its spec or metadata is edited
ExternalEvent ==
    /\ queue = <<>>
    /\ queue' = <<status>>
    /\ UNCHANGED <<cfg, status, now, fleet, podsOn, chaos, hist, steps, churn>>

\* nodes gain or lose the target labels
LabelChange ==
    /\ churn > 0
    /\ churn' = churn - 1
    /\ \E f \in SUBSET AllNodes : f # fleet /\ fleet' = f
    /\ UNCHANGED <<cfg, status, queue, now, podsOn, chaos, hist, steps>>

Next ==
    \/ Reconcile
    \/ ExternalEvent
    \/ LabelChange

Spec == Init /\ [][Next]_vars

\* ------------------------------------------------------------------------
\* The operator left alone with a static cluster: the only events are the
\* ADDED event of the object and the MODIFIED events of the operator's own
\* status writes, and the reconciles are not counted.  The loop of run takes
\* every event of the stream, so a pending event is eventually reconciled.
\* ------------------------------------------------------------------------
StaticScenarios ==
    {s \in Scenarios : s.churn = 0 /\ (s.fleet = {} \/ s.cfg.schedule # "valid")}

\* no API call fails
StaticInit ==
    /\ \E s \in StaticScenarios :
          /\ cfg = s.cfg /\ fleet = s.fleet /\ podsOn = s.pods /\ churn = s.churn
    /\ chaos = FALSE
    /\ steps = 0
    /\ status = EmptyStatus
    /\ queue = <<EmptyStatus>>
    /\ now = 0
    /\ hist = [flip |-> 0, fault |-> "none", requested |-> {}, written |-> <<>>,
               slept |-> 0, health |-> <<50, 50>>, pdbs |-> <<(<<>>), (<<>>)>>,
               attempted |-> 0, captured |-> {}]

OwnEvent == Deliver /\ UNCHANGED steps

StaticNext == OwnEvent

StaticSpec == StaticInit /\ [][StaticNext]_vars /\ WF_vars(OwnEvent)

\* ------------------------------------------------------------------------
\* Vocabulary of the properties
\* ------------------------------------------------------------------------
\* the step is a reconcile (hist.flip changes in no other step)
IsReconcile == hist'.flip # hist.flip

\* the phase the reconciled event embeds, and the persisted one
ObjPhase == GetStr(queue[1].phase, "Idle")
PersistedPhase == GetStr(status.phase, "Idle")

\* the event embeds the status that is persisted when it is reconciled
FreshEvent == queue[1] = status

\* the phase before the i-th phase write of the reconcile just made
PhaseBefore(i) == IF i = 1 THEN PersistedPhase ELSE hist'.written[i - 1]

\* the health gate passed in the reconcile just made
GatePassed ==
    hist'.fault # "health" /\ HealthTable[hist'.health, cfg.minHealthThreshold]

\* the transition table of the state machine
TableEdge(from, to) ==
    \/ from = "Idle" /\ to = "Provisioning"
    \/ from = "Idle" /\ to = "Completed" /\ fleet = {}
    \/ from = "Provisioning" /\ to = "Draining"
    \/ from = "Draining" /\ to = "Validating"
    \/ from = "Validating" /\ to \in {"Provisioning", "Completed", "Failed"}
    \/ from = "Completed" /\ to = "Idle" /\ cfg.schedule # None
    \/ from = "Failed" /\ to = "Idle" /\ GetNum(status.retryCount, 0) < Len(retry_delays)
    \/ to = "Failed"

\* C1: every change of status.phase written by the operator is an edge of
\* the transition table (Idle->Provisioning, Idle->Completed on an empty
\* fleet, Provisioning->Draining, Draining->Validating, Validating->
\* Provisioning/Completed/Failed, Completed->Idle when scheduled, Failed->Idle
\* while retryCount < 4, or a move to Failed).  Stated for the reconciles
\* in which no API call fails.
C1_TransitionTable ==
    [][IsReconcile /\ hist'.fault = "none" =>
          \A i \in 1..Len(hist'.written) :
              PhaseBefore(i) # hist'.written[i]
                  => TableEdge(PhaseBefore(i), hist'.written[i])]_vars

\* C2: a reconcile whose event embeds a status older than the persisted one
\* decides what the persisted status calls for: its outcome is an outcome of
\* reconciling the persisted status, not of re-running the handler of the
\* snapshot's phase.
C2_StaleSnapshotIgnored ==
    [][IsReconcile /\ ~FreshEvent =>
          \E env \in Envs(status) :
              LET w == reconcile(World(env), status, env)
              IN  status' = w.st /\ podsOn' = w.pods]_vars

\* a name was appended to status.nodesRefreshed by the step
Appended ==
    /\ status'.nodesRefreshed # status.nodesRefreshed
    /\ status'.nodesRefreshed # <<>>

LastRefreshed == status'.nodesRefreshed[Len(status'.nodesRefreshed)]

\* the pods left on a node that a drain has to move
EvictableOn(on, node_name) == {p \in PodsOfNode(on, node_name) : KeepPod(p)}

\* C3: a node name is appended to nodesRefreshed only by a Validating
\* reconcile whose health gate passed, and when it is appended no evictable
\* pod is still scheduled on that node.
C3_RefreshedMeansDrained ==
    [][IsReconcile /\ Appended /\ FreshEvent /\ hist'.fault = "none" =>
          /\ ObjPhase = "Validating"
          /\ GatePassed
          /\ EvictableOn(podsOn', LastRefreshed) = {}]_vars

\* the reconcile just made started a refresh
Started ==
    /\ hist'.written # <<>>
    /\ hist'.written[1] \in {"Provisioning", "Completed"}

\* C4: with a schedule, an Idle reconcile starts a refresh iff there is no
\* lastRefreshTime or the first cron tick after lastRefreshTime has passed;
\* a reconcile that ends before that tick leaves the object Idle.
C4_DueFromLastRefresh ==
    [][/\ IsReconcile
       /\ cfg.schedule = "valid"
       /\ ObjPhase = "Idle"
       /\ FreshEvent
       /\ hist'.fault = "none"
       => /\ status.lastRefreshTime = Absent => Started
          /\ (status.lastRefreshTime # Absent
                /\ now >= get_next(status.lastRefreshTime)) => Started
          /\ (status.lastRefreshTime # Absent
                /\ now' < get_next(status.lastRefreshTime)) => hist'.written = <<>>]_vars

\* C5: every eviction request is issued by a Draining reconcile whose health
\* gate passed, for a pod that is scheduled on status.currentNode, is not
\* owned by a DaemonSet and is outside kube-system and kube-public.
C5_EvictionTargets ==
    [][IsReconcile =>
          \A p \in hist'.requested :
              /\ ObjPhase = "Draining"
              /\ GatePassed
              /\ p \in podsOn
              /\ PodInfo[p].node = status.currentNode
              /\ ~is_daemonset_pod(p)
              /\ PodInfo[p].ns \notin {"kube-system", "kube-public"}]_vars

\* the gate as the formula states it, in exact arithmetic
GateFormula(pods, threshold) ==
    pods[2] = 0 \/ pods[1] * 100 >= threshold * pods[2]

\* C6: the health gate passes iff Running/total*100 >= minHealthThreshold
\* (an empty cluster passes); a Draining reconcile whose gate passes goes on
\* to Validating, one whose gate fails issues no eviction, leaves the phase
\* and sets the message that the refresh is paused.
C6_HealthGate ==
    [][/\ IsReconcile
       /\ ObjPhase = "Draining"
       /\ FreshEvent
       /\ hist'.fault = "none"
       /\ ~chaos
       => IF GateFormula(hist'.health, cfg.minHealthThreshold)
          THEN hist'.written = <<"Validating">>
          ELSE /\ hist'.requested = {}
               /\ hist'.written = <<>>
               /\ status'.message = "Paused: Cluster health below threshold"]_vars

\* admission as the rule states it: every budget that selects the pod still
\* allows a disruption
Admitted(p, listing) ==
    \A i \in 1..Len(listing) :
        selector_matches_pod(listing[i].sel, p)
            => listing[i].allowed > 0

\* C7: an eviction request is submitted only for a pod that was admitted,
\* at the first check or at the re-check: every PodDisruptionBudget of its
\* namespace whose selector matches it had disruptionsAllowed > 0.
C7_AdmittedByEveryBudget ==
    [][IsReconcile /\ hist'.fault = "none" =>
          \A p \in hist'.requested :
              Admitted(p, hist'.pdbs[1]) \/ Admitted(p, hist'.pdbs[2])]_vars

\* C8: a Failed reconcile with retryCount = k < 4 waits retry_delays[k] and
\* writes phase Idle and retryCount k+1; with retryCount >= 4 it writes no
\* phase and sets the message that the retries are exhausted.
C8_RetryLadder ==
    [][/\ IsReconcile
       /\ ObjPhase = "Failed"
       /\ FreshEvent
       /\ hist'.fault = "none"
       => LET k == GetNum(status.retryCount, 0)
          IN  IF k < Len(retry_delays)
              THEN /\ hist'.slept = retry_delays[k + 1]
                   /\ status'.phase = "Idle"
                   /\ status'.retryCount = k + 1
              ELSE /\ hist'.written = <<>>
                   /\ status'.message = "Failed: Max retries exceeded"]_vars

\* C9: a reconcile in which a listing of nodes or pods fails leaves the phase
\* as it was.
C9_FaultKeepsPhase ==
    [][/\ IsReconcile
       /\ FreshEvent
       /\ fleet # {}
       /\ hist'.fault \in {"listTarget", "listAll", "health"}
       =>
          /\ status'.phase = status.phase
          /\ \A i \in 1..Len(hist'.written) : hist'.written[i] = PersistedPhase]_vars

\* C10: an object whose cron expression cannot be parsed is moved to Failed
\* and from then on follows the retry schedule of Failed: its next reconcile
\* retries or, with the retries exhausted, writes no phase; the expression
\* is not parsed, and the object failed, again.
C10_MalformedFollowsRetries ==
    [][/\ IsReconcile
       /\ cfg.schedule = "malformed"
       /\ FreshEvent
       /\ hist'.fault = "none"
       => IF PersistedPhase # "Failed"
          THEN status'.phase = "Failed"
          ELSE hist'.written # <<"Failed">>]_vars

\* the phases of a cycle in progress
InCycle == status.phase \in {"Provisioning", "Draining", "Validating"}

\* the names of a list of nodes
Names(nodes) == {nodes[i] : i \in 1..Len(nodes)}

\* C11: whenever a reconcile changes status.nodesRefreshed, the new list
\* holds no name twice and every name in it belongs to the fleet captured
\* when the cycle started, whatever happens to the labels meanwhile.
C11_RefreshedWithinCapturedFleet ==
    [][IsReconcile /\ status'.nodesRefreshed # status.nodesRefreshed =>
          /\ Cardinality(Names(status'.nodesRefreshed)) = Len(status'.nodesRefreshed)
          /\ Names(status'.nodesRefreshed) \subseteq hist'.captured]_vars

\* C12: whenever phase is Completed, nodesRefreshed has exactly totalNodes
\* entries, or totalNodes is 0.
C12_CompletedCountsEveryNode ==
    status.phase = "Completed" =>
        \/ Len(status.nodesRefreshed) = status.totalNodes
        \/ status.totalNodes = 0

\* C13: whenever a reconcile leaves the phase at Provisioning, Draining or
\* Validating, currentNode is set and names a node that exists and carries
\* the target labels at that moment.
C13_CurrentNodeInFleet ==
    [][IsReconcile /\ InCycle' => status'.currentNode \in fleet']_vars

\* the place of a node name in lexicographic order
NameRank(n) == CASE n = "n1" -> 1 [] n = "n2" -> 2 [] n = "n3" -> 3 [] OTHER -> 0

\* C14: status.nodesRefreshed is always in lexicographic order of the node
\* names, whatever order the API server lists the nodes in.
C14_RefreshedInNameOrder ==
    \A i \in 1..Len(status.nodesRefreshed) : \A j \in i..Len(status.nodesRefreshed) :
        NameRank(status.nodesRefreshed[i]) <= NameRank(status.nodesRefreshed[j])

\* C15: an unscheduled resource over the fleet {n1, n2}, three evictable
\* pods on each node, a healthy cluster with spare capacity, no blocking
\* budget and no API failure: once Completed, nodesRefreshed = [n1, n2],
\* podsMovedSuccessfully = 6 and podsMovesFailed = 0.
C15_TwoNodeWalkthrough ==
    (podsOn \subseteq PlainPods /\ status.phase = "Completed") =>
        /\ status.nodesRefreshed = <<"n1", "n2">>
        /\ status.podsMovedSuccessfully = 6
        /\ status.podsMovesFailed = 0

\* C16: a reconcile that starts a refresh from Idle while no node carries
\* the target labels goes directly to Completed with totalNodes = 0 and
\* nodesRefreshed = [], whatever the status held before.
C16_EmptyFleetCompletes ==
    [][(/\ IsReconcile
        /\ FreshEvent
        /\ ObjPhase = "Idle"
        /\ fleet = {}
        /\ hist'.fault = "none"
        /\ hist'.written # <<>>) =>
          /\ hist'.written[1] = "Completed"
          /\ status'.totalNodes = 0
          /\ status'.nodesRefreshed = <<>>]_vars

\* the conditions a reconcile kept from the list it found
KeptConditions == Len(status'.conditions) - Len(hist'.written)

\* the list never exceeds ten entries and its timestamps never decrease
ConditionsBounded ==
    /\ Len(status.conditions) <= 10
    /\ \A i \in 1..Len(status.conditions) : \A j \in i..Len(status.conditions) :
           status.conditions[i].lastTransitionTime <= status.conditions[j].lastTransitionTime

\* a reconcile appends one condition per write that set the phase, typed by
\* that phase and in the order of the writes, and keeps the newest of the
\* earlier entries in their order; writes that set no phase append none
ConditionsAppended ==
    IsReconcile =>
        /\ Len(status'.conditions) =
               IF Len(status.conditions) + Len(hist'.written) <= 10
               THEN Len(status.conditions) + Len(hist'.written) ELSE 10
        /\ \A i \in 1..Len(hist'.written) :
               status'.conditions[KeptConditions + i].type = hist'.written[i]
        /\ \A j \in 1..KeptConditions :
               status'.conditions[j] =
                   status.conditions[Len(status.conditions) - KeptConditions + j]

\* C17: status.conditions never holds more than 10 entries, the retained
\* entries are the most recently appended ones in append order with
\* non-decreasing lastTransitionTime, every status write that sets the phase
\* appends exactly one condition whose type is the new phase, and a status
\* write that sets no phase appends none.
C17_ConditionsLog == []ConditionsBounded /\ [][ConditionsAppended]_vars

\* the list is full and its oldest entries have been dropped: the first
\* condition of a resource is never a Draining one
C17_Witness ==
    /\ Len(status.conditions) = 10
    /\ status.conditions[1].type = "Draining"
    /\ hist.written # <<>>

\* the sum of the two pod counters of a status
PodsCounted(st) == GetNum(st.podsMovedSuccessfully, 0) + GetNum(st.podsMovesFailed, 0)

\* C18: a Draining reconcile raises podsMovedSuccessfully + podsMovesFailed
\* by exactly the number of pods it attempted to evict: each attempted pod
\* is counted once, as a success or as a failure.
C18_EachPodCountedOnce ==
    [][(/\ IsReconcile
        /\ FreshEvent
        /\ ObjPhase = "Draining"
        /\ hist'.written = <<"Validating">>) =>
          PodsCounted(status') = PodsCounted(status) + hist'.attempted]_vars

\* a reconcile wrote phase p
Wrote(p) == \E i \in 1..Len(hist'.written) : hist'.written[i] = p

\* C19: lastRefreshTime is written at every transition into Completed, with
\* the instant of that transition, and by no other status write.
C19_RefreshTimeAtCompleted ==
    [][IsReconcile =>
          IF Wrote("Completed")
          THEN status'.lastRefreshTime \in now..now'
          ELSE status'.lastRefreshTime = status.lastRefreshTime]_vars

\* C20: retryCount never decreases while a cycle has not completed, and the
\* Validating reconcile that brings the cycle to Completed resets it to 0.
C20_RetryCountResetOnCompleted ==
    [][IsReconcile =>
          IF ObjPhase = "Validating" /\ Wrote("Completed")
          THEN GetNum(status'.retryCount, 0) = 0
          ELSE GetNum(status'.retryCount, 0) >= GetNum(status.retryCount, 0)]_vars

\* the status fields other than nextRefreshTime
FrameFields == DOMAIN EmptyStatus \ {"nextRefreshTime"}

\* the reconciled object is Idle with a schedule whose first tick after its
\* lastRefreshTime has not come by the end of the reconcile
IdleNotDue ==
    /\ cfg.schedule = "valid"
    /\ ObjPhase = "Idle"
    /\ queue[1].lastRefreshTime # Absent
    /\ now' < get_next(queue[1].lastRefreshTime)

\* C21: reconciling an Idle object whose schedule is not yet due changes no
\* status field other than nextRefreshTime, which becomes the first tick
\* after the instant of the reconcile, appends no condition and submits no
\* eviction.
C21_NotDueChangesNothing ==
    [][IsReconcile /\ IdleNotDue =>
          /\ \A f \in FrameFields : status'[f] = status[f]
          /\ \/ \E t \in now..now' : status'.nextRefreshTime = get_next(t)
             \/ hist'.fault = "status" /\ status'.nextRefreshTime = status.nextRefreshTime
          /\ hist'.written = <<>>
          /\ hist'.requested = {}
          /\ podsOn' = podsOn]_vars

\* an Idle object that has completed a cycle, whose tick has not come, and
\* whose every event has been reconciled, the last one writing no phase
C21_Witness ==
    /\ cfg.schedule = "valid"
    /\ status.phase = "Idle"
    /\ status.lastRefreshTime # Absent
    /\ now < get_next(status.lastRefreshTime)
    /\ status.nextRefreshTime = get_next(now)
    /\ queue = <<>>
    /\ hist.written = <<>>
    /\ hist.fault = "none"

\* what failed verifications added to podsMovesFailed in the reconcile just
\* made: the rise of the counter less the evictions that failed
VerifyPenalty ==
    (GetNum(status'.podsMovesFailed, 0) - GetNum(status.podsMovesFailed, 0))
        - (hist'.attempted - Cardinality(podsOn \ podsOn'))

\* C22: only a ReplicaSet or StatefulSet that does not become ready makes
\* the verification of a batch fail; while every such owner is ready, no
\* batch fails, whatever pods without owner or with an owner of another
\* kind it holds.
C22_OnlyUnreadyOwnersFail ==
    [][(/\ IsReconcile
        /\ ~chaos
        /\ FreshEvent
        /\ ObjPhase = "Draining"
        /\ hist'.written = <<"Validating">>) => VerifyPenalty = 0]_vars

\* C23: left alone with a static cluster, the operator eventually stops:
\* the chain of reconciles caused by its own status writes is finite.
C23_Quiescence == <>[][~IsReconcile]_vars

=============================================================================
